---------------------------- MODULE Spec2Model ----------------------------
(***************************************************************************)
(* Model of scripts/run-agent: the run controller (run-agent.ts), the      *)
(* backend gateway client (backend-client.ts) and the session registrar    *)
(* (session-manager.ts).                                                   *)
(*                                                                         *)
(* JavaScript values are modelled as follows.  An object is a record; a    *)
(* field that is absent, undefined or null is a field that is not in the   *)
(* record's DOMAIN.  A string is a TLA+ string, an array is a sequence.    *)
(* An Error is a record [name, message, stack]; the stack names the        *)
(* function that threw, which is what identifies where an error came from. *)
(***************************************************************************)
EXTENDS Integers, Sequences, FiniteSets, TLC

\* Runtime events delivered to handleMessage in one invocation of main().
MaxEvents == 2

\* Content blocks of an assistant or partial message (translator inputs).
MaxBlocks == 2

\* Entries of systemPrompts and of messages (prompt builder inputs).
MaxSystemPrompts == 2
MaxHistory == 2

VARIABLES
    env,            \* process.env: BACKEND_URL and ACTIVITY_ID when set
    pc,             \* position of the single thread of control
    fetchState,     \* the GET agent-context request: "none", "pending" or its outcome
    context,        \* the AgentContext returned by fetchAgentContext ([] before)
    phase,          \* "none", "resume" (runWithResume) or "full" (runWithFullPrompt)
    invocations,    \* calls of query(): [prompt, options, state]
    events,         \* SDK messages pulled from the streams so far: [message, invocation]
    callbacks,      \* POSTs to /agent/callback: [payload, cause, outcome]
    exc,            \* the exception travelling to the top-level catch of main
    exitCode,       \* <<>> while process.exit has not been reached, else <<code>>
    saveSessionCalls,   \* calls of SessionManager.saveSession
    buildCalls,     \* calls of buildFullPrompt and buildFallbackPrompt
    prompt          \* the local `prompt` of main (line 204)

vars == <<env, pc, fetchState, context, phase, invocations, events, callbacks,
          exc, exitCode, saveSessionCalls, buildCalls, prompt>>

-----------------------------------------------------------------------------
(* JavaScript helpers *)

\* Truthiness of an optional string field: present and not "".
Truthy(r, f) == f \in DOMAIN r /\ r[f] # ""

\* Array.prototype.join
RECURSIVE Join(_, _)
Join(xs, sep) ==
    IF Len(xs) = 0 THEN ""
    ELSE IF Len(xs) = 1 THEN xs[1]
    ELSE xs[1] \o sep \o Join(Tail(xs), sep)

\* a || b on strings
OrElse(a, b) == IF a # "" THEN a ELSE b

NoError == [name |-> "", message |-> "", stack |-> ""]

\* new Error(message); `where` is the call chain below main at the throw, or
\* the function that created an error that is never thrown.
NewError(message, where) == [name |-> "Error", message |-> message, stack |-> where]

-----------------------------------------------------------------------------
(* Inputs: the environment, the backend's answers and the runtime's streams *)

Environments ==
    { [BACKEND_URL |-> "http://backend", ACTIVITY_ID |-> "act-1"],
      [BACKEND_URL |-> "http://backend", ACTIVITY_ID |-> ""],
      [BACKEND_URL |-> "http://backend"],
      [ACTIVITY_ID |-> "act-1"],
      [BACKEND_URL |-> "", ACTIVITY_ID |-> "act-1"] }

History == << [role |-> "user", content |-> "hi"] >>

\* Bodies of a 2xx answer of GET /activities/{id}/agent-context.
Contexts ==
    { [sessionId |-> s, systemPrompts |-> sp, currentPrompt |-> "P", messages |-> ms] :
          s \in {"sess-0"}, sp \in {<< >>, <<"S1", "S2">>}, ms \in {<< >>, History} }
    \cup
    { [systemPrompts |-> sp, currentPrompt |-> "P", messages |-> ms] :
          sp \in {<< >>, <<"S1", "S2">>}, ms \in {<< >>, History} }
    \cup
    { [sessionId |-> "", systemPrompts |-> <<"S1", "S2">>, currentPrompt |-> "P",
       messages |-> History],
      [sessionId |-> "sess-0", currentPrompt |-> "P", messages |-> History],
      [sessionId |-> "sess-0", currentPrompt |-> "P", systemPrompts |-> <<"S1", "S2">>],
      [sessionId |-> "sess-0", systemPrompts |-> <<"S1", "S2">>, currentPrompt |-> "",
       messages |-> History],
      [sessionId |-> "sess-0", systemPrompts |-> <<"S1", "S2">>, messages |-> History],
      [systemPrompts |-> << >>, messages |-> << >>] }

TextBlock(t) == [type |-> "text", text |-> t]

\* The SDKMessage values the runtime may yield.
SDKMessages ==
    { [type |-> "system", subtype |-> "init", session_id |-> "sess-1"],
      [type |-> "system", subtype |-> "compact_boundary", session_id |-> "sess-1"],
      [type |-> "assistant",
       message |-> [content |-> <<TextBlock("a"), [type |-> "tool_use"], TextBlock("b")>>]],
      [type |-> "assistant", message |-> [content |-> <<[type |-> "tool_use"]>>]],
      [type |-> "partial_message", content |-> <<TextBlock("a"), TextBlock("b")>>],
      [type |-> "result", subtype |-> "success", result |-> "R"],
      [type |-> "result", subtype |-> "success"],
      [type |-> "result", subtype |-> "error_max_turns", errors |-> <<"e1", "e2">>],
      [type |-> "result", subtype |-> "error_during_execution"],
      [type |-> "user"] }

\* How an HTTP request ends: a 2xx answer, a non-2xx answer, or fetch() rejecting.
HttpOutcomes == {"ok", "http_error", "rejected"}

-----------------------------------------------------------------------------
(* backend-client.ts and session-manager.ts: the payloads *)

\* SessionManager.saveSession: the event handed to reportProgress
saveSession(sessionId) ==
    [type |-> "progress", subtype |-> "session_init",
     metadata |-> [sessionId |-> sessionId]]

\* BackendClient.reportCompleted
reportCompleted(result) ==
    [type |-> "completed", role |-> "assistant", content |-> result]

\* BackendClient.reportError
reportError(error) ==
    [type |-> "error", content |-> error.message,
     metadata |-> [stack |-> error.stack, name |-> error.name]]

-----------------------------------------------------------------------------
(* run-agent.ts: pure functions *)

IsText(block) == block.type = "text" /\ Truthy(block, "text")

\* Faulty variant: the filter forgets the block type.
TextsOf_AnyBlockWithText(blocks) ==
    LET kept == SelectSeq(blocks, LAMBDA b : Truthy(b, "text"))
    IN  [i \in 1..Len(kept) |-> kept[i].text]

\* .filter(text block with text).map(block => block.text)
TextsOf(blocks) ==
    LET kept == SelectSeq(blocks, IsText)
    IN  [i \in 1..Len(kept) |-> kept[i].text]

extractTextContent(message) ==
    IF message.type = "assistant" /\ "message" \in DOMAIN message
                                  /\ "content" \in DOMAIN message.message
    THEN Join(TextsOf(message.message.content), "\n")
    ELSE ""

NonEmpty(s) == s # ""

\* Faulty variant: the empty system prompts are not filtered out.
buildFullPrompt_NoFilter(systemPrompts, userPrompt) ==
    LET systemPart == Join(systemPrompts, "\n\n")
    IN  IF systemPart = "" THEN userPrompt
        ELSE systemPart \o "\n\n---\n\nUser Request:\n" \o userPrompt

buildFullPrompt(systemPrompts, userPrompt) ==
    LET systemPart == Join(SelectSeq(systemPrompts, NonEmpty), "\n\n")
    IN  IF systemPart = "" THEN userPrompt
        ELSE systemPart \o "\n\n---\n\nUser Request:\n" \o userPrompt

HistoryLine(m) == (IF m.role = "user" THEN "User" ELSE "Assistant") \o ": " \o m.content

\* Faulty variant: the empty sections are not filtered out.
buildFallbackPrompt_NoSectionFilter(systemPrompts, messages, currentPrompt) ==
    LET systemPart  == Join(SelectSeq(systemPrompts, NonEmpty), "\n\n")
        historyPart == Join([i \in 1..Len(messages) |-> HistoryLine(messages[i])], "\n\n")
    IN  Join(<<systemPart, historyPart, "User: " \o currentPrompt>>, "\n\n---\n\n")

buildFallbackPrompt(systemPrompts, messages, currentPrompt) ==
    LET systemPart  == Join(SelectSeq(systemPrompts, NonEmpty), "\n\n")
        historyPart == Join([i \in 1..Len(messages) |-> HistoryLine(messages[i])], "\n\n")
        parts == SelectSeq(<<systemPart, historyPart, "User: " \o currentPrompt>>, NonEmpty)
    IN  Join(parts, "\n\n---\n\n")

\* Faulty variant: every system message is taken for the init signal.
handleSystem_AnySubtype(message) == <<"saveSession", message.session_id>>

\* handleMessage, case 'system'
handleSystem(message) ==
    IF message.subtype = "init"
    THEN <<"saveSession", message.session_id>>
    ELSE <<"none">>

\* Faulty variant: a default case that reports the unknown type as an error.
handleUnknown_ReportsError(message) ==
    <<"reportError", NewError("Unknown message type", "handleMessage")>>

\* handleMessage, a type without a case: the switch has no default
handleUnknown(message) == <<"none">>

\* handleMessage: the one call it makes for a message, as <<callee, argument>>;
\* <<"none">> when the message is dropped.
handleMessageCall(message) ==
    CASE message.type = "system" -> handleSystem(message)
      [] message.type = "assistant" ->
            LET content == extractTextContent(message)
            IN  IF content # ""
                THEN <<"reportProgress",
                       [type |-> "progress", role |-> "assistant", content |-> content]>>
                ELSE <<"none">>
      [] message.type = "result" ->
            IF message.subtype = "success"
            THEN <<"reportCompleted",
                   OrElse(IF "result" \in DOMAIN message THEN message.result ELSE "",
                          "Task completed")>>
            ELSE <<"reportError",
                   NewError(OrElse(IF "errors" \in DOMAIN message
                                   THEN Join(message.errors, ", ") ELSE "",
                                   "Unknown error"),
                            "handleMessage")>>
      [] message.type = "partial_message" ->
            LET partialContent ==
                    IF "content" \in DOMAIN message
                    THEN Join(TextsOf(message.content), "")
                    ELSE ""
            IN  IF partialContent # ""
                THEN <<"reportProgress",
                       [type |-> "progress", role |-> "assistant",
                        content |-> partialContent, subtype |-> "partial"]>>
                ELSE <<"none">>
      [] OTHER -> handleUnknown(message)

\* The body of the POST that a call made by handleMessage issues.
PayloadOf(call) ==
    CASE call[1] = "saveSession"     -> saveSession(call[2])
      [] call[1] = "reportProgress"  -> call[2]
      [] call[1] = "reportCompleted" -> reportCompleted(call[2])
      [] call[1] = "reportError"     -> reportError(call[2])

-----------------------------------------------------------------------------
(* The state machine *)

AllowedTools == <<"Read", "Write", "Edit", "Glob", "Grep", "Bash">>

\* The options object of runWithFullPrompt; runWithResume adds `resume`.
Options ==
    [allowedTools |-> AllowedTools, permissionMode |-> "bypassPermissions",
     allowDangerouslySkipPermissions |-> TRUE, cwd |-> "cwd"]

\* Faulty variant: the resume option is left out.
ResumeOptions_NoResume(sessionId) ==
    [allowedTools |-> AllowedTools, permissionMode |-> "bypassPermissions",
     allowDangerouslySkipPermissions |-> TRUE, cwd |-> "cwd"]

ResumeOptions(sessionId) ==
    [allowedTools |-> AllowedTools, permissionMode |-> "bypassPermissions",
     allowDangerouslySkipPermissions |-> TRUE, cwd |-> "cwd", resume |-> sessionId]

\* What fetch() rejects with, seen from function `where`.
FetchFailed(where) == [name |-> "TypeError", message |-> "fetch failed", stack |-> where]

Init ==
    /\ env \in Environments
    /\ pc = "load"
    /\ fetchState = "none"
    /\ context = << >>
    /\ phase = "none"
    /\ invocations = << >>
    /\ events = << >>
    /\ callbacks = << >>
    /\ exc = NoError
    /\ exitCode = << >>
    /\ saveSessionCalls = 0
    /\ buildCalls = [full |-> 0, fallback |-> 0]
    /\ prompt = ""

\* Faulty variant: the process exits with status 0 whatever the code.
ProcessExit_Zero(code) == pc' = "exited" /\ exitCode' = <<0>>

\* process.exit(code)
ProcessExit(code) == pc' = "exited" /\ exitCode' = <<code>>

\* Faulty variant: the ACTIVITY_ID check is missing.
EnvValid_NoActivityCheck(e) == Truthy(e, "BACKEND_URL")

\* The two checks at module load.
EnvValid(e) == Truthy(e, "BACKEND_URL") /\ Truthy(e, "ACTIVITY_ID")

\* Module load: validate the environment, construct the client; main() then runs.
ValidateEnv ==
    /\ pc = "load"
    /\ IF EnvValid(env)
       THEN pc' = "main" /\ UNCHANGED exitCode
       ELSE ProcessExit(1)
    /\ UNCHANGED <<env, fetchState, context, phase, invocations, events, callbacks,
                   exc, saveSessionCalls, buildCalls, prompt>>

\* fetchAgentContext: the GET is issued.
FetchSend ==
    /\ pc = "main"
    /\ fetchState' = "pending"
    /\ pc' = "fetch_wait"
    /\ UNCHANGED <<env, context, phase, invocations, events, callbacks, exc, exitCode,
                   saveSessionCalls, buildCalls, prompt>>

\* fetchAgentContext: the GET ends; a non-2xx answer and a rejection both throw.
FetchReturn ==
    /\ pc = "fetch_wait"
    /\ \E o \in HttpOutcomes :
        /\ fetchState' = o
        /\ CASE o = "ok" ->
                  \E c \in Contexts :
                      context' = c /\ pc' = "validate" /\ UNCHANGED exc
             [] o = "http_error" ->
                  /\ exc' = NewError("Failed to fetch agent context: 500 Internal Server Error",
                                     "fetchAgentContext")
                  /\ pc' = "catch"
                  /\ UNCHANGED context
             [] o = "rejected" ->
                  /\ exc' = FetchFailed("fetchAgentContext")
                  /\ pc' = "catch"
                  /\ UNCHANGED context
    /\ UNCHANGED <<env, phase, invocations, events, callbacks, exitCode,
                   saveSessionCalls, buildCalls, prompt>>

\* main, step 2: validate the current prompt.
ValidatePrompt ==
    /\ pc = "validate"
    /\ IF Truthy(context, "currentPrompt")
       THEN pc' = "decide" /\ UNCHANGED exc
       ELSE exc' = NewError("No prompt available in agent context", "main") /\ pc' = "catch"
    /\ UNCHANGED <<env, fetchState, context, phase, invocations, events, callbacks,
                   exitCode, saveSessionCalls, buildCalls, prompt>>

\* main, step 3: with a session id, runWithResume calls query({prompt, options}).
Decide ==
    /\ pc = "decide"
    /\ IF Truthy(context, "sessionId")
       THEN /\ invocations' = Append(invocations,
                                [prompt |-> context.currentPrompt,
                                 options |-> ResumeOptions(context.sessionId),
                                 state |-> "open"])
            /\ phase' = "resume"
            /\ pc' = "pull"
       ELSE /\ pc' = "build"
            /\ UNCHANGED <<invocations, phase>>
    /\ UNCHANGED <<env, fetchState, context, events, callbacks, exc, exitCode,
                   saveSessionCalls, buildCalls, prompt>>

\* Faulty variant: the `return` of line 193 is missing.
ResumeCompleted_NoReturn == pc' = "build" /\ UNCHANGED <<exc, exitCode>>

\* runWithResume returned: main returns, the process ends with status 0.
ResumeCompleted == pc' = "returned" /\ exitCode' = <<0>> /\ UNCHANGED exc

\* Faulty variant: no inner try/catch, the resume error reaches the top-level catch.
ResumeFailed_Rethrown(error) == pc' = "catch" /\ exc' = error /\ UNCHANGED exitCode

\* runWithResume threw `error`: it is logged with console.warn and dropped.
ResumeFailed(error) == pc' = "build" /\ UNCHANGED <<exc, exitCode>>

\* runWithFullPrompt returned: main returns, the process ends with status 0.
FullCompleted == pc' = "returned" /\ exitCode' = <<0>> /\ UNCHANGED exc

\* runWithFullPrompt threw `error`: the top-level catch of main takes it.
FullFailed(error) == pc' = "catch" /\ exc' = error /\ UNCHANGED exitCode

\* The state of the query() call being consumed becomes s.
CloseStream(s) == invocations' = [invocations EXCEPT ![Len(invocations)].state = s]

\* for await: the stream yields the next message.
PullMessage ==
    /\ pc = "pull"
    /\ Len(events) < MaxEvents
    /\ \E m \in SDKMessages :
           events' = Append(events, [message |-> m, invocation |-> Len(invocations)])
    /\ pc' = "handle"
    /\ UNCHANGED <<env, fetchState, context, phase, invocations, callbacks, exc, exitCode,
                   saveSessionCalls, buildCalls, prompt>>

\* for await: the stream is exhausted.
StreamEnds ==
    /\ pc = "pull"
    /\ CloseStream("done")
    /\ IF phase = "resume" THEN ResumeCompleted ELSE FullCompleted
    /\ UNCHANGED <<env, fetchState, context, phase, events, callbacks,
                   saveSessionCalls, buildCalls, prompt>>

\* for await: the stream throws.
StreamThrows ==
    /\ pc = "pull"
    /\ CloseStream("threw")
    /\ IF phase = "resume"
       THEN ResumeFailed(NewError("runtime failed", "runWithResume"))
       ELSE FullFailed(NewError("runtime failed", "runWithFullPrompt"))
    /\ UNCHANGED <<env, fetchState, context, phase, events, callbacks,
                   saveSessionCalls, buildCalls, prompt>>

\* Faulty variant: the POST is not awaited, the loop goes on to the next message.
AfterSend_NoAwait == "pull"

\* Where control is once reportProgress has issued its POST: awaiting the answer.
AfterSend == "post_wait"

\* handleMessage: drop the message, or make its one call, which issues a POST.
HandleMessage ==
    /\ pc = "handle"
    /\ LET call == handleMessageCall(events[Len(events)].message)
       IN  IF call[1] = "none"
           THEN pc' = "pull" /\ UNCHANGED <<callbacks, saveSessionCalls>>
           ELSE /\ callbacks' = Append(callbacks,
                                   [payload |-> PayloadOf(call), cause |-> Len(events),
                                    outcome |-> "pending"])
                /\ saveSessionCalls' =
                       IF call[1] = "saveSession" THEN saveSessionCalls + 1
                       ELSE saveSessionCalls
                /\ pc' = AfterSend
    /\ UNCHANGED <<env, fetchState, context, phase, invocations, events, exc, exitCode,
                   buildCalls, prompt>>

\* reportProgress: the POST ends.  A non-2xx answer is logged; a rejection of
\* fetch() is not caught, so it leaves handleMessage and the for-await loop,
\* which closes the stream.
PostReturn ==
    /\ pc = "post_wait"
    /\ \E o \in HttpOutcomes :
        /\ callbacks' = [callbacks EXCEPT ![Len(callbacks)].outcome = o]
        /\ IF o = "rejected"
           THEN /\ CloseStream("aborted")
                /\ IF phase = "resume"
                   THEN ResumeFailed(FetchFailed("reportProgress<runWithResume"))
                   ELSE FullFailed(FetchFailed("reportProgress<runWithFullPrompt"))
           ELSE pc' = "pull" /\ UNCHANGED <<invocations, exc, exitCode>>
    /\ UNCHANGED <<env, fetchState, context, phase, events,
                   saveSessionCalls, buildCalls, prompt>>

\* systemPrompts.filter(...) on a context without systemPrompts
NoSystemPrompts(where) ==
    [name |-> "TypeError",
     message |-> "Cannot read properties of undefined (reading 'filter')",
     stack |-> where]

\* main, step 4: build the prompt.
BuildPrompt ==
    /\ pc = "build"
    /\ IF "messages" \in DOMAIN context /\ Len(context.messages) > 0
       THEN /\ buildCalls' = [buildCalls EXCEPT !.fallback = @ + 1]
            /\ IF "systemPrompts" \in DOMAIN context
               THEN /\ prompt' = buildFallbackPrompt(context.systemPrompts,
                                                     context.messages,
                                                     context.currentPrompt)
                    /\ pc' = "run_full"
                    /\ UNCHANGED exc
               ELSE /\ exc' = NoSystemPrompts("buildFallbackPrompt")
                    /\ pc' = "catch"
                    /\ UNCHANGED prompt
       ELSE /\ buildCalls' = [buildCalls EXCEPT !.full = @ + 1]
            /\ IF "systemPrompts" \in DOMAIN context
               THEN /\ prompt' = buildFullPrompt(context.systemPrompts,
                                                 context.currentPrompt)
                    /\ pc' = "run_full"
                    /\ UNCHANGED exc
               ELSE /\ exc' = NoSystemPrompts("buildFullPrompt")
                    /\ pc' = "catch"
                    /\ UNCHANGED prompt
    /\ UNCHANGED <<env, fetchState, context, phase, invocations, events, callbacks,
                   exitCode, saveSessionCalls>>

\* main, step 5: runWithFullPrompt calls query({prompt, options}).
RunWithFullPrompt ==
    /\ pc = "run_full"
    /\ invocations' = Append(invocations,
                             [prompt |-> prompt, options |-> Options, state |-> "open"])
    /\ phase' = "full"
    /\ pc' = "pull"
    /\ UNCHANGED <<env, fetchState, context, events, callbacks, exc, exitCode,
                   saveSessionCalls, buildCalls, prompt>>

\* Top-level catch of main: reportError(error) issues its POST.
Catch ==
    /\ pc = "catch"
    /\ callbacks' = Append(callbacks,
                           [payload |-> reportError(exc), cause |-> 0,
                            outcome |-> "pending"])
    /\ pc' = "catch_wait"
    /\ UNCHANGED <<env, fetchState, context, phase, invocations, events, exc, exitCode,
                   saveSessionCalls, buildCalls, prompt>>

\* Top-level catch of main: the POST ends.  After an answer, process.exit(1).
\* A rejection of fetch() leaves the catch block: main's promise rejects and
\* line 222 is not reached, so the program sets no exit status.
CatchReturn ==
    /\ pc = "catch_wait"
    /\ \E o \in HttpOutcomes :
        /\ callbacks' = [callbacks EXCEPT ![Len(callbacks)].outcome = o]
        /\ IF o = "rejected"
           THEN pc' = "rejected" /\ UNCHANGED exitCode
           ELSE ProcessExit(1)
    /\ UNCHANGED <<env, fetchState, context, phase, invocations, events, exc,
                   saveSessionCalls, buildCalls, prompt>>

Next ==
    \/ ValidateEnv
    \/ FetchSend
    \/ FetchReturn
    \/ ValidatePrompt
    \/ Decide
    \/ PullMessage
    \/ StreamEnds
    \/ StreamThrows
    \/ HandleMessage
    \/ PostReturn
    \/ BuildPrompt
    \/ RunWithFullPrompt
    \/ Catch
    \/ CatchReturn

Spec == Init /\ [][Next]_vars

\* The invocation is over: main returned, process.exit was reached, or main's
\* promise rejected.
Terminated == pc \in {"returned", "exited", "rejected"}

-----------------------------------------------------------------------------
(* Vocabulary of the properties *)

CallbackIds == 1..Len(callbacks)

IsTerminal(i) == callbacks[i].payload.type \in {"completed", "error"}
IsProgress(i) == callbacks[i].payload.type = "progress"
IsErrorEvent(i) == callbacks[i].payload.type = "error"
IsSessionInit(i) ==
    /\ "subtype" \in DOMAIN callbacks[i].payload
    /\ callbacks[i].payload.subtype = "session_init"

TerminalCallbacks == {i \in CallbackIds : IsTerminal(i)}
ErrorCallbacks == {i \in CallbackIds : IsErrorEvent(i)}

\* main() was entered: the environment passed validation.
PastEnvValidation == pc \notin {"load"} /\ ~(pc = "exited" /\ fetchState = "none")

IsResume(n) == "resume" \in DOMAIN invocations[n].options
ResumeInvocations == {n \in 1..Len(invocations) : IsResume(n)}
FullInvocations == {n \in 1..Len(invocations) : ~IsResume(n)}

\* The resume attempt raised: the runtime threw, or handling a message threw.
ResumeRaised ==
    \E n \in ResumeInvocations : invocations[n].state \in {"threw", "aborted"}

\* The resume attempt consumed its stream to exhaustion without throwing.
ResumeSucceeded == \E n \in ResumeInvocations : invocations[n].state = "done"

BuilderCalls == buildCalls.full + buildCalls.fallback

\* HTTP requests issued and not yet answered.
HttpInFlight ==
    Cardinality({i \in CallbackIds : callbacks[i].outcome = "pending"})
        + (IF fetchState = "pending" THEN 1 ELSE 0)

OpenStreams == {n \in 1..Len(invocations) : invocations[n].state = "open"}

IsInitEvent(k) ==
    /\ events[k].message.type = "system"
    /\ events[k].message.subtype = "init"

\* The init events handleMessage has dealt with.
InitEventsHandled ==
    {k \in 1..Len(events) : IsInitEvent(k) /\ (k < Len(events) \/ pc # "handle")}

-----------------------------------------------------------------------------
(* Properties *)

\* C1: every invocation of main() that gets past environment validation sends
\* exactly one terminal callback (completed or error), and every progress
\* callback is sent before it.
C1_ExactlyOneTerminal ==
    PastEnvValidation =>
        /\ Cardinality(TerminalCallbacks) <= 1
        /\ Terminated => Cardinality(TerminalCallbacks) = 1
        /\ \A i \in TerminalCallbacks : \A j \in CallbackIds : IsProgress(j) => j < i

C3_ResumeSuccessEndsRun ==
    ResumeSucceeded =>
        /\ buildCalls = [full |-> 0, fallback |-> 0]
        /\ FullInvocations = {}
        /\ Len(invocations) = 1
        /\ prompt = ""
        /\ pc = "returned"

C3_Witness == ResumeSucceeded /\ Len(events) = MaxEvents /\ pc = "returned"

\* C4: a failing callback POST, by a non-2xx status or by a rejected request,
\* raises nothing: it ends no stream, puts no exception on its way to the
\* top-level catch and does not make main reject.
C4_PostFailureSwallowed ==
    /\ \A n \in 1..Len(invocations) : invocations[n].state # "aborted"
    /\ exc.stack \notin {"reportProgress<runWithResume", "reportProgress<runWithFullPrompt"}
    /\ pc # "rejected"

\* C5 as stated: saveSession is called exactly once in a run that invokes the
\* runtime, only for an init event, and handling that event sends the
\* session_init event carrying the session id and nothing else.
C5_SaveSessionExactlyOnce ==
    /\ \A i \in CallbackIds :
           IsSessionInit(i) => callbacks[i].cause >= 1 /\ IsInitEvent(callbacks[i].cause)
    /\ (Terminated /\ Len(invocations) >= 1) => saveSessionCalls = 1

\* C5 amended: saveSession is called once for each init event handled, and only
\* for an init event; handling an init event sends exactly one callback, the
\* session_init progress event carrying that event's session id as metadata.
C5_SaveSessionPerInitEvent ==
    /\ saveSessionCalls = Cardinality(InitEventsHandled)
    /\ saveSessionCalls = Cardinality({i \in CallbackIds : IsSessionInit(i)})
    /\ \A i \in CallbackIds :
           IsSessionInit(i) =>
               /\ callbacks[i].cause >= 1
               /\ IsInitEvent(callbacks[i].cause)
               /\ callbacks[i].payload =
                      [type |-> "progress", subtype |-> "session_init",
                       metadata |->
                           [sessionId |-> events[callbacks[i].cause].message.session_id]]
    /\ \A k \in InitEventsHandled :
           /\ Cardinality({i \in CallbackIds : callbacks[i].cause = k}) = 1
           /\ \A i \in CallbackIds : callbacks[i].cause = k => IsSessionInit(i)

\* A failed resume and the full-prompt run that follows each delivered init.
C5_Witness ==
    /\ Terminated
    /\ saveSessionCalls = 2
    /\ ResumeRaised
    /\ Cardinality(FullInvocations) = 1

\* C6: when the context fetch answers with a non-2xx status, the runtime is
\* never invoked, exactly one callback POST is made, of type error, and the
\* process exits with status 1.
C6_FetchNotOk ==
    fetchState = "http_error" =>
        /\ invocations = << >>
        /\ Len(callbacks) <= 1
        /\ Terminated =>
              /\ Len(callbacks) = 1
              /\ IsErrorEvent(1)
              /\ exitCode = <<1>>

\* C7: when the fetched context has no currentPrompt or an empty one, the
\* runtime is never invoked, exactly one error event is reported and the
\* process exits with status 1.
C7_NoPrompt ==
    (fetchState = "ok" /\ ~Truthy(context, "currentPrompt")) =>
        /\ invocations = << >>
        /\ Cardinality(ErrorCallbacks) <= 1
        /\ Terminated =>
              /\ Cardinality(ErrorCallbacks) = 1
              /\ exitCode = <<1>>

C9_ExitStatus ==
    (Terminated /\ PastEnvValidation) =>
        IF \E n \in 1..Len(invocations) : invocations[n].state = "done"
        THEN exitCode = <<0>>
        ELSE /\ exitCode = <<1>>
             /\ Len(callbacks) >= 1
             /\ IsErrorEvent(Len(callbacks))
             /\ callbacks[Len(callbacks)].cause = 0
             /\ callbacks[Len(callbacks)].outcome # "pending"

\* C10: at most one HTTP request is in flight and at most one stream is open;
\* the callback of a message has been answered before the next message is
\* pulled, so callbacks are issued in the order of the messages; and the resume
\* stream is closed before the prompt is built and the full-prompt stream opened.
C10_StrictSequencing ==
    /\ HttpInFlight <= 1
    /\ Cardinality(OpenStreams) <= 1
    /\ pc = "pull" => HttpInFlight = 0
    /\ \A i \in CallbackIds :
           (callbacks[i].cause >= 1 /\ callbacks[i].cause < Len(events))
               => callbacks[i].outcome # "pending"
    /\ \A i, j \in CallbackIds :
           (i < j /\ callbacks[j].cause >= 1) =>
               callbacks[i].cause >= 1 /\ callbacks[i].cause < callbacks[j].cause
    /\ \A n \in ResumeInvocations :
           (pc \in {"build", "run_full"} \/ phase = "full") => invocations[n].state # "open"
    /\ \A k \in 1..Len(events) :
           events[k].invocation = Len(invocations) \/ invocations[events[k].invocation].state # "open"

C10_Witness ==
    /\ Terminated
    /\ Len(invocations) = 2
    /\ Len(callbacks) >= 2
    /\ callbacks[1].cause = 1
    /\ callbacks[2].cause = 2
    /\ events[1].invocation = 1
    /\ events[2].invocation = 2

-----------------------------------------------------------------------------
(* The translator on its own: handleMessage applied to one message, in the    *)
(* state main is in when the first message of a full-prompt run has arrived.  *)

Blocks ==
    { TextBlock("a"), TextBlock("b"), TextBlock(""), [type |-> "text"],
      [type |-> "tool_use"], [type |-> "tool_use", text |-> "t"] }

BlockSeqs == UNION { [1..n -> Blocks] : n \in 0..MaxBlocks }

ResultSubtypes == {"success", "error_max_turns", "error_during_execution"}
ResultTexts == {"", "R"}
ErrorLists == { << >>, <<"e1">>, <<"e1", "e2">> }

TranslatorMessages ==
    { [type |-> "assistant", message |-> [content |-> bs]] : bs \in BlockSeqs }
    \cup { [type |-> "partial_message", content |-> bs] : bs \in BlockSeqs }
    \cup { [type |-> "assistant"], [type |-> "assistant", message |-> [role |-> "assistant"]],
           [type |-> "partial_message"] }
    \cup { [type |-> "result", subtype |-> st] : st \in ResultSubtypes }
    \cup { [type |-> "result", subtype |-> st, result |-> r] :
               st \in ResultSubtypes, r \in ResultTexts }
    \cup { [type |-> "result", subtype |-> st, errors |-> es] :
               st \in ResultSubtypes, es \in ErrorLists }
    \cup { [type |-> "result", subtype |-> st, result |-> r, errors |-> es] :
               st \in ResultSubtypes, r \in ResultTexts, es \in ErrorLists }
    \cup { [type |-> "system", subtype |-> "init", session_id |-> "sess-1"],
           [type |-> "system", subtype |-> "compact_boundary", session_id |-> "sess-1"],
           [type |-> "user"], [type |-> "stream_event"] }

TranslateInit ==
    /\ env = [BACKEND_URL |-> "http://backend", ACTIVITY_ID |-> "act-1"]
    /\ fetchState = "ok"
    /\ context = [systemPrompts |-> << >>, currentPrompt |-> "P", messages |-> << >>]
    /\ phase = "full"
    /\ buildCalls = [full |-> 1, fallback |-> 0]
    /\ prompt = "P"
    /\ invocations = << [prompt |-> "P", options |-> Options, state |-> "open"] >>
    /\ \E m \in TranslatorMessages : events = << [message |-> m, invocation |-> 1] >>
    /\ pc = "handle"
    /\ callbacks = << >>
    /\ exc = NoError
    /\ exitCode = << >>
    /\ saveSessionCalls = 0

TranslateNext ==
    \/ HandleMessage
    \/ PostReturn

TranslateSpec == TranslateInit /\ [][TranslateNext]_vars

\* Reference for "joined by sep", built from the last element backwards.
RECURSIVE Separated(_, _)
Separated(xs, sep) ==
    IF xs = << >> THEN ""
    ELSE IF Len(xs) = 1 THEN xs[1]
    ELSE Separated(SubSeq(xs, 1, Len(xs) - 1), sep) \o sep \o xs[Len(xs)]

\* Reference for the texts that contribute: text-typed blocks with non-empty text.
RECURSIVE ContributingTexts(_)
ContributingTexts(bs) ==
    IF bs = << >> THEN << >>
    ELSE LET b == Head(bs)
         IN  (IF b.type = "text" /\ "text" \in DOMAIN b /\ b.text # ""
              THEN <<b.text>> ELSE << >>) \o ContributingTexts(Tail(bs))

\* The message handleMessage was applied to, once it has made its call.
Translated == events[1].message
HandlerHasActed == pc # "handle"

\* C11: a result event with subtype success yields exactly one completed
\* callback whose content is the result text, or "Task completed" when it is
\* absent or empty; any other subtype yields exactly one error callback whose
\* content is the error list joined by ", ", or "Unknown error" when it is
\* absent or empty; and neither case raises to the caller.
C11_ResultTranslation ==
    (HandlerHasActed /\ Translated.type = "result") =>
        /\ Len(callbacks) = 1
        /\ callbacks[1].cause = 1
        /\ IF Translated.subtype = "success"
           THEN /\ callbacks[1].payload.type = "completed"
                /\ callbacks[1].payload.content =
                       (IF "result" \in DOMAIN Translated /\ Translated.result # ""
                        THEN Translated.result ELSE "Task completed")
           ELSE /\ callbacks[1].payload.type = "error"
                /\ callbacks[1].payload.content =
                       (IF "errors" \in DOMAIN Translated /\ Translated.errors # << >>
                        THEN Separated(Translated.errors, ", ") ELSE "Unknown error")
        /\ exc = NoError
        /\ pc # "catch"
        /\ invocations[1].state = "open"

\* C12: the text of the text-typed blocks with non-empty text is joined in
\* order, by a newline for an assistant event and by nothing for a partial
\* one; a non-empty result is sent as exactly one progress callback with role
\* assistant (subtype partial for a partial event, no subtype for a final one),
\* an empty result sends nothing; other blocks never contribute.
C12_AssistantTranslation ==
    (HandlerHasActed /\ Translated.type \in {"assistant", "partial_message"}) =>
        LET final == Translated.type = "assistant"
            blocks ==
                IF final
                THEN IF "message" \in DOMAIN Translated
                         /\ "content" \in DOMAIN Translated.message
                     THEN Translated.message.content ELSE << >>
                ELSE IF "content" \in DOMAIN Translated
                     THEN Translated.content ELSE << >>
            text == Separated(ContributingTexts(blocks), IF final THEN "\n" ELSE "")
        IN  IF text = ""
            THEN callbacks = << >>
            ELSE /\ Len(callbacks) = 1
                 /\ callbacks[1].cause = 1
                 /\ callbacks[1].payload =
                        (IF final
                         THEN [type |-> "progress", role |-> "assistant", content |-> text]
                         ELSE [type |-> "progress", role |-> "assistant", content |-> text,
                               subtype |-> "partial"])

C12_Witness ==
    /\ pc = "pull"
    /\ Translated = [type |-> "assistant",
                     message |-> [content |-> <<TextBlock("a"), TextBlock("b")>>]]
    /\ Len(callbacks) = 1
    /\ callbacks[1].payload.content = "a\nb"
    /\ callbacks[1].outcome = "ok"

\* A message handleMessage has no case for, or a system message that is not init.
Ignorable(m) ==
    \/ m.type \notin {"system", "assistant", "result", "partial_message"}
    \/ m.type = "system" /\ m.subtype # "init"

\* C13: pulling a message changes nothing but the position and the log of
\* messages, and handling an ignorable message sends no callback, raises
\* nothing and returns to the loop with every other variable unchanged: the
\* run continues as if the message had not been in the stream.
C13_IgnoredMessageIsNoOp ==
    [][ /\ (pc = "pull" /\ pc' = "handle") =>
               UNCHANGED <<env, fetchState, context, phase, invocations, callbacks,
                           exc, exitCode, saveSessionCalls, buildCalls, prompt>>
        /\ (pc = "handle" /\ Ignorable(events[Len(events)].message)) =>
               /\ pc' = "pull"
               /\ UNCHANGED <<env, fetchState, context, phase, invocations, events,
                              callbacks, exc, exitCode, saveSessionCalls, buildCalls,
                              prompt>> ]_vars

\* An unknown message was handled and the next message was translated as usual.
C13_Witness ==
    /\ Len(events) = 2
    /\ events[1].message = [type |-> "user"]
    /\ events[2].message.type = "result"
    /\ Len(callbacks) = 1
    /\ callbacks[1].cause = 2
    /\ pc = "returned"

-----------------------------------------------------------------------------
(* The prompt builders on their own: main at step 4, reached without a       *)
(* session id or after a resume attempt that threw.                           *)

SystemPromptTexts == {"", "S", "S1", "S2"}
SystemPromptLists == UNION { [1..n -> SystemPromptTexts] : n \in 0..MaxSystemPrompts }

HistoryEntries == [role : {"user", "assistant", "system"}, content : {"hi", ""}]
Histories == UNION { [1..n -> HistoryEntries] : n \in 0..MaxHistory }

PromptContexts ==
    { [systemPrompts |-> sp, currentPrompt |-> "P", messages |-> ms] :
          sp \in SystemPromptLists, ms \in Histories }
    \cup { [systemPrompts |-> sp, currentPrompt |-> "P"] : sp \in SystemPromptLists }
    \cup { [sessionId |-> "sess-0", systemPrompts |-> sp, currentPrompt |-> "P",
            messages |-> ms] : sp \in SystemPromptLists, ms \in Histories }

PromptInit ==
    /\ env = [BACKEND_URL |-> "http://backend", ACTIVITY_ID |-> "act-1"]
    /\ fetchState = "ok"
    /\ context \in PromptContexts
    /\ IF Truthy(context, "sessionId")
       THEN /\ phase = "resume"
            /\ invocations = << [prompt |-> context.currentPrompt,
                                 options |-> ResumeOptions(context.sessionId),
                                 state |-> "threw"] >>
       ELSE /\ phase = "none"
            /\ invocations = << >>
    /\ pc = "build"
    /\ events = << >>
    /\ callbacks = << >>
    /\ exc = NoError
    /\ exitCode = << >>
    /\ saveSessionCalls = 0
    /\ buildCalls = [full |-> 0, fallback |-> 0]
    /\ prompt = ""

PromptNext ==
    \/ BuildPrompt
    \/ RunWithFullPrompt

PromptSpec == PromptInit /\ [][PromptNext]_vars

\* sub occurs in s
Contains(s, sub) ==
    \E i \in 1..(Len(s) - Len(sub) + 1) : SubSeq(s, i, i + Len(sub) - 1) = sub

\* Reference: the non-empty strings of xs, in order.
RECURSIVE NonEmptyOnes(_)
NonEmptyOnes(xs) ==
    IF xs = << >> THEN << >>
    ELSE (IF Head(xs) = "" THEN << >> ELSE <<Head(xs)>>) \o NonEmptyOnes(Tail(xs))

\* Reference: history entries rendered "User: " / "Assistant: " plus content.
RECURSIVE RenderedHistory(_)
RenderedHistory(ms) ==
    IF ms = << >> THEN << >>
    ELSE << (IF Head(ms).role = "user" THEN "User: " ELSE "Assistant: ")
                \o Head(ms).content >> \o RenderedHistory(Tail(ms))

SectionSeparator == "\n\n---\n\n"

\* Reference: the non-empty sections among system part, history part and
\* "User: " plus the current prompt, joined by the separator.
ExpectedFallback(sp, ms, cur) ==
    LET sys  == Separated(NonEmptyOnes(sp), "\n\n")
        hist == Separated(RenderedHistory(ms), "\n\n")
        last == "User: " \o cur
    IN  IF sys = "" /\ hist = "" THEN last
        ELSE IF sys = "" THEN hist \o SectionSeparator \o last
        ELSE IF hist = "" THEN sys \o SectionSeparator \o last
        ELSE sys \o SectionSeparator \o hist \o SectionSeparator \o last

\* Reference: the first-conversation prompt.
ExpectedFull(sp, cur) ==
    IF \A i \in 1..Len(sp) : sp[i] = ""
    THEN cur
    ELSE Separated(NonEmptyOnes(sp), "\n\n") \o "\n\n---\n\nUser Request:\n" \o cur

HasHistory == "messages" \in DOMAIN context /\ context.messages # << >>
BuilderReturned == pc \in {"run_full", "pull"}

\* C14: when the full-prompt path runs, the fallback builder is used iff the
\* context's messages are non-empty and the first-conversation builder
\* otherwise, so a prompt built for empty messages holds no "User: " or
\* "Assistant: " block; the fallback builder returns the non-empty sections
\* among system part, rendered history and "User: " plus the current prompt,
\* joined by "\n\n---\n\n" (also for an empty history).
C14_PromptSelectionAndFallback ==
    BuilderReturned =>
        /\ buildCalls = (IF HasHistory THEN [full |-> 0, fallback |-> 1]
                         ELSE [full |-> 1, fallback |-> 0])
        /\ HasHistory =>
               prompt = ExpectedFallback(context.systemPrompts, context.messages,
                                         context.currentPrompt)
        /\ ~HasHistory => ~Contains(prompt, "User: ") /\ ~Contains(prompt, "Assistant: ")
        /\ buildFallbackPrompt(context.systemPrompts, << >>, context.currentPrompt)
               = ExpectedFallback(context.systemPrompts, << >>, context.currentPrompt)
        /\ (/\ context.systemPrompts = <<"S">>
            /\ HasHistory
            /\ context.messages = << [role |-> "user", content |-> "hi"] >>)
               => prompt = "S\n\n---\n\nUser: hi\n\n---\n\nUser: P"

C14_Witness ==
    /\ pc = "pull"
    /\ context = [systemPrompts |-> <<"S">>, currentPrompt |-> "P",
                  messages |-> << [role |-> "user", content |-> "hi"] >>]
    /\ buildCalls.fallback = 1
    /\ invocations[1].prompt = "S\n\n---\n\nUser: hi\n\n---\n\nUser: P"

\* C15: buildFullPrompt returns the user prompt verbatim when the list of
\* system prompts is empty or holds only empty entries, and otherwise the
\* non-empty system prompts joined by a blank line, then
\* "\n\n---\n\nUser Request:\n", then the user prompt.
C15_FullPrompt ==
    (BuilderReturned /\ ~HasHistory) =>
        /\ buildCalls.full = 1
        /\ prompt = ExpectedFull(context.systemPrompts, context.currentPrompt)
        /\ context.systemPrompts = <<"S1", "S2">>
               => prompt = "S1\n\nS2\n\n---\n\nUser Request:\nP"
        /\ context.systemPrompts \in {<< >>, <<"">>, <<"", "">>} => prompt = "P"

C15_Witness ==
    /\ pc = "pull"
    /\ ~HasHistory
    /\ context.systemPrompts = <<"", "S1">>
    /\ invocations[Len(invocations)].prompt = "S1\n\n---\n\nUser Request:\nP"

\* C16: query() is called at most twice, at most once with resume and at most
\* once without.  The resume call is made iff the context has a non-empty
\* sessionId and a non-empty currentPrompt; it is the first call, its prompt is
\* currentPrompt verbatim and its resume option is the sessionId.  The call made
\* by runWithFullPrompt has no resume option and alone gets the built prompt.
C16_RuntimeInvocations ==
    /\ Len(invocations) <= 2
    /\ Cardinality(ResumeInvocations) <= 1
    /\ Cardinality(FullInvocations) <= 1
    /\ \A n \in ResumeInvocations :
           /\ n = 1
           /\ Truthy(context, "sessionId")
           /\ Truthy(context, "currentPrompt")
           /\ invocations[n].prompt = context.currentPrompt
           /\ invocations[n].options.resume = context.sessionId
    /\ (/\ Truthy(context, "sessionId")
        /\ Truthy(context, "currentPrompt")
        /\ pc \notin {"validate", "decide"}) => Len(invocations) >= 1 /\ IsResume(1)
    /\ phase = "resume" => Len(invocations) = 1 /\ IsResume(1)
    /\ phase = "full" =>
           LET n == Len(invocations)
           IN  /\ n >= 1
               /\ "resume" \notin DOMAIN invocations[n].options
               /\ invocations[n].prompt =
                      (IF HasHistory
                       THEN ExpectedFallback(context.systemPrompts, context.messages,
                                             context.currentPrompt)
                       ELSE ExpectedFull(context.systemPrompts, context.currentPrompt))
               /\ n = 2 => IsResume(1) /\ invocations[1].state # "open"
    /\ phase = "none" => invocations = << >>

C16_Witness ==
    /\ Terminated
    /\ Len(invocations) = 2
    /\ invocations[1].prompt = "P"
    /\ invocations[1].options.resume = "sess-0"
    /\ "resume" \notin DOMAIN invocations[2].options
    /\ invocations[2].prompt = "S1\n\nS2\n\n---\n\nUser: hi\n\n---\n\nUser: P"

-----------------------------------------------------------------------------
(* Exit status and termination *)

IsResultEvent(k) == events[k].message.type = "result"
CompletedCallbacks == {i \in CallbackIds : callbacks[i].payload.type = "completed"}

\* C17 as stated, on the runs that sent exactly one terminal callback: a run
\* that exits with status 0 has reported a completed event and no error event;
\* a run that exits with status 1 after environment validation has reported an
\* error event and no completed event.
C17_ExitStatusAgrees ==
    Cardinality(TerminalCallbacks) = 1 =>
        /\ exitCode = <<0>> => CompletedCallbacks # {} /\ ErrorCallbacks = {}
        /\ (exitCode = <<1>> /\ PastEnvValidation) =>
               ErrorCallbacks # {} /\ CompletedCallbacks = {}

\* C17 amended: a run that exits with status 1 after environment validation
\* has sent, as its last callback, the error event of the top-level catch; a
\* run that exits with status 0 has sent no callback from the top-level catch,
\* and its terminal callbacks are exactly the translations of the result
\* events delivered: completed for a success result, error for any other.
C17_ExitStatusFollowsExceptions ==
    /\ (exitCode = <<1>> /\ PastEnvValidation) =>
           /\ Len(callbacks) >= 1
           /\ IsErrorEvent(Len(callbacks))
           /\ callbacks[Len(callbacks)].cause = 0
           /\ callbacks[Len(callbacks)].outcome \in {"ok", "http_error"}
    /\ exitCode = <<0>> =>
           /\ \A i \in CallbackIds : callbacks[i].cause >= 1
           /\ \A i \in TerminalCallbacks :
                  /\ IsResultEvent(callbacks[i].cause)
                  /\ callbacks[i].payload.type = "completed"
                         <=> events[callbacks[i].cause].message.subtype = "success"
           /\ \A k \in 1..Len(events) :
                  IsResultEvent(k) =>
                      /\ Cardinality({i \in CallbackIds : callbacks[i].cause = k}) = 1
                      /\ \A i \in CallbackIds : callbacks[i].cause = k => IsTerminal(i)

\* A non-success result event, then the stream ends: error reported, status 0.
C17_Witness ==
    /\ exitCode = <<0>>
    /\ pc = "returned"
    /\ Len(events) = 1
    /\ IsResultEvent(1)
    /\ events[1].message.subtype = "error_max_turns"
    /\ Len(callbacks) = 1
    /\ IsErrorEvent(1)
    /\ callbacks[1].outcome = "ok"

\* C18: with every HTTP call answered or failed and every stream finite, main
\* terminates by returning or by reaching process.exit(1): the run stops
\* nowhere else, in particular not after a failed error-report POST in the
\* top-level catch.
C18_TerminatesByReturnOrExit ==
    pc \in {"returned", "exited"} \/ ENABLED Next

=============================================================================
